---- MODULE Spec2Model ----
(***************************************************************************)
(* Pool scheduler of the dynamic VM service (src/vm_manager.py): the       *)
(* VMPoolManager record store, its IP allocator, the provisioning pipeline *)
(* create_vm, assign / release, the monitoring loop (health pass and       *)
(* scaling pass), startup reconciliation and shutdown.                     *)
(*                                                                         *)
(* The program is single-threaded asyncio code.  One action of the model   *)
(* is the code one task runs between two suspension points (an await of a  *)
(* remote call or of a sleep); the answer of the remote system is the      *)
(* action's input.  The wall-clock fields created_at and last_health_check *)
(* are not modelled.                                                       *)
(***************************************************************************)
EXTENDS Integers, Sequences, FiniteSets, TLC

\* ------------------------------------------------------------------------
\* Bounds of the model and constants of the program
\* ------------------------------------------------------------------------
\* create_vm is attempted at most MaxCreates times (bounds next_vm_id)
MaxCreates == 2

\* the scenario driver makes at most MaxCalls assign calls and MaxReleases
\* releases that free a place
MaxCalls == 8
MaxReleases == 2

\* largest max_vms of the configurations the address allocator is run with
MaxPool == 4

\* number of create_vm calls considered to start one right after the other
ConcurrentCalls == 3

\* self.next_vm_id = 100
FirstVmId == 100

\* _wait_for_vm_ready polls every 5 seconds
ReadyPollInterval == 5

\* value of a key that is not in config.json
Absent == 0 - 1

\* config.json: the configurations the service is started with.  subnet is
\* <<prefix, first host, last host>> and base_ip a host of that prefix.
\* check_interval is not among the keys _validate_config requires.
Config(mx, upv, bl) ==
    [max_vms |-> mx, users_per_vm |-> upv, base_load |-> bl,
     vm_ready_timeout |-> 5, template_vm_id |-> 9000,
     enable_health_checks |-> TRUE, check_interval |-> 30,
     subnet |-> <<"192.168.1", 0, 255>>, base_ip |-> 100]

Configs == {Config(2, 2, 1), Config(1, 2, 1), Config(2, 1, 1)}

\* configurations of the sequential scenarios; the first is the one of
\* scenario_capacity_limits, the last has subnet 10.0.0.0/24 and base
\* address 10.0.0.10
ScenarioConfigs ==
    {Config(3, 2, 1), Config(2, 1, 2), Config(2, 3, 0),
     [Config(2, 2, 1) EXCEPT !.subnet = <<"10.0.0", 0, 255>>, !.base_ip = 10]}

\* ids of the VMs the hypervisor may report as running at startup
RemoteIds == {99, 100, 9000}

Callers == {"u1"}
Tasks == {"init", "mon"} \cup Callers

None == "None"
NoIp == <<"none", 0>>
NoRef == <<"none", 0>>

\* ------------------------------------------------------------------------
\* Data types
\* ------------------------------------------------------------------------
VMStatus == {"creating", "running", "stopped", "error"}

\* VMInfo(id, name, ip, status, guacamole_connection_id=None, user_count=0)
VMInfo(id, name, ip, status) ==
    [id |-> id, name |-> name, ip |-> ip, status |-> status,
     guacamole_connection_id |-> None, user_count |-> 0]

\* f"dynamic-vm-{vm_id}" and f"existing-vm-{vm_id}"; the name also serves as
\* the identity of the VMInfo object (no two objects ever get the same name)
DynamicName(vm_id) == <<"dynamic-vm", vm_id>>
ExistingName(vm_id) == <<"existing-vm", vm_id>>

\* f"192.168.1.{vm_id}"
FallbackIp(vm_id) == <<"192.168.1", vm_id>>

\* ------------------------------------------------------------------------
\* vm_pool: a Python dict (insertion ordered) from vm id to a VMInfo object,
\* modelled as a sequence of <<id, reference>>; objs is the heap of the
\* VMInfo objects some task or the dict still refers to.
\* ------------------------------------------------------------------------
Keys(pool) == {pool[i][1] : i \in DOMAIN pool}

RefOf(pool, id) == pool[CHOOSE i \in DOMAIN pool : pool[i][1] = id][2]

Put(pool, id, ref) ==
    IF id \in Keys(pool)
    THEN [i \in DOMAIN pool |-> IF pool[i][1] = id THEN <<id, ref>> ELSE pool[i]]
    ELSE Append(pool, <<id, ref>>)

KeepOther(id, e) == e[1] # id

Del(pool, id) == SelectSeq(pool, LAMBDA e : KeepOther(id, e))

SeqToSet(s) == {s[i] : i \in DOMAIN s}

Contains(s, x) == \E i \in DOMAIN s : s[i] = x

RECURSIVE SortedSeq(_)
SortedSeq(S) ==
    IF S = {} THEN <<>>
    ELSE LET m == CHOOSE x \in S : \A y \in S : x <= y
         IN <<m>> \o SortedSeq(S \ {m})

\* ------------------------------------------------------------------------
\* IP allocator
\* ------------------------------------------------------------------------
InNetwork(net, host) == host >= net[2] /\ host <= net[3]

RECURSIVE WalkIps(_, _, _)
WalkIps(net, current_ip, n) ==
    IF n = 0 \/ ~InNetwork(net, current_ip) THEN <<>>
    ELSE <<<<net[1], current_ip>>>> \o WalkIps(net, current_ip + 1, n - 1)

\* the highest IPv4 address: "current_ip += 1" on it raises AddressValueError
LastAddress == <<"255.255.255", 255>>

\* the walk appends LastAddress, and raises on the increment that follows
RECURSIVE WalkRaises(_, _, _)
WalkRaises(net, current_ip, n) ==
    /\ n > 0
    /\ InNetwork(net, current_ip)
    /\ \/ <<net[1], current_ip>> = LastAddress
       \/ WalkRaises(net, current_ip + 1, n - 1)

_initialize_ip_pool(net, base, n) == WalkIps(net, base, n)

\* get_next_ip that pops the last address of the free list
get_next_ip_last(pool) ==
    IF pool # <<>> THEN <<pool[Len(pool)], SubSeq(pool, 1, Len(pool) - 1)>>
    ELSE <<NoIp, pool>>

\* get_next_ip: <<returned address, new free list>>
get_next_ip(pool) ==
    IF pool # <<>> THEN <<Head(pool), Tail(pool)>> ELSE <<NoIp, pool>>

release_ip(pool, ip) ==
    IF ~Contains(pool, ip) THEN Append(pool, ip) ELSE pool

\* ------------------------------------------------------------------------
\* State
\* ------------------------------------------------------------------------
VARIABLES
    config,          \* self.config
    objs,            \* heap: VMInfo objects by reference
    vm_pool,         \* self.vm_pool
    available_vms,   \* self.available_vms
    next_vm_id,      \* self.next_vm_id
    ip_pool,         \* self.ip_pool
    is_running,      \* self.is_running
    init_pc,         \* position of the initialize() task
    running_vms,     \* ensure_base_load: running_vms still to register
    base_iters,      \* ensure_base_load: iterations left of the create loop
    mon_pc,          \* position of the monitoring task ("none": not created)
    health_todo,     \* _check_vm_health: items of list(vm_pool.items()) left
    cvm,             \* the create_vm frame of each task
    ret,             \* what the last assign call of each caller returned
    stop_pc,         \* position of shutdown()
    proxmox_closed,  \* proxmox_manager.close() was called
    guac_closed,     \* guacamole_manager.close() was called
    env,             \* "any": remote calls may fail; "ok": they all succeed
    successful_assignments, \* counters kept by the scenario driver
    failed_assignments,
    releases,
    pool_status      \* what the driver's last get_pool_status call returned

mgr_vars == <<objs, vm_pool, available_vms, next_vm_id, ip_pool>>
task_vars == <<is_running, init_pc, running_vms, base_iters, mon_pc, health_todo,
               cvm, ret, stop_pc, proxmox_closed, guac_closed, env>>
driver_vars == <<successful_assignments, failed_assignments, releases, pool_status>>
vars == <<config, mgr_vars, task_vars, driver_vars>>

max_vms == config.max_vms
users_per_vm == config.users_per_vm
base_load == config.base_load
vm_ready_timeout == config.vm_ready_timeout
template_vm_id == config.template_vm_id
enable_health_checks == config.enable_health_checks

\* the VMPoolManager fields as one value, so that the code a task runs
\* between two awaits can be composed of operators
Mgr == [objs |-> objs, vm_pool |-> vm_pool, available_vms |-> available_vms,
        next_vm_id |-> next_vm_id, ip_pool |-> ip_pool]

SetMgr(m) ==
    /\ objs' = m.objs
    /\ vm_pool' = m.vm_pool
    /\ available_vms' = m.available_vms
    /\ next_vm_id' = m.next_vm_id
    /\ ip_pool' = m.ip_pool

NoFrame == [pc |-> "none", vm_id |-> 0, ip |-> NoIp, ref |-> NoRef, attempt |-> 0]

\* objects that are neither in vm_pool nor held by a create_vm frame cannot
\* be read again; they are dropped from the heap
Collect(m, frames) ==
    LET live == {e[2] : e \in SeqToSet(m.vm_pool)}
                  \cup {frames[p].ref : p \in DOMAIN frames}
    IN [m EXCEPT !.objs = [r \in (DOMAIN m.objs) \cap live |-> m.objs[r]]]

monitoring_task == IF mon_pc = "none" THEN None ELSE "task"

\* ------------------------------------------------------------------------
\* Answers of the two remote systems
\* ------------------------------------------------------------------------
\* proxmox_manager.clone_vm -> bool
CloneAnswers ==
    IF proxmox_closed THEN {FALSE}
    ELSE IF env = "ok" THEN {TRUE} ELSE {TRUE, FALSE}

\* proxmox_manager.get_vm_status: the 'status' of the answer, or "raise"
StatusAnswers ==
    IF proxmox_closed THEN {"unknown"}
    ELSE IF env = "ok" THEN {"running"} ELSE {"running", "stopped", "raise"}

\* guacamole_manager.create_connection -> identifier or None
ConnectionAnswers ==
    IF guac_closed THEN {None}
    ELSE IF env = "ok" THEN {"conn"} ELSE {"conn", None}

\* proxmox_manager.list_vms: the ids of the VMs reported as running
ListAnswers ==
    IF proxmox_closed \/ env = "ok" THEN {{}} ELSE SUBSET RemoteIds

\* ------------------------------------------------------------------------
\* create_vm
\* ------------------------------------------------------------------------
\* the except branch with the address kept in a field shared by all calls:
\* it releases the address of the record inserted last
CreateCleanupSharedIp(m, f) ==
    LET o1 == IF f.ref \in DOMAIN m.objs
              THEN [m.objs EXCEPT ![f.ref].status = "error"] ELSE m.objs
        last == IF m.vm_pool # <<>>
                THEN m.objs[m.vm_pool[Len(m.vm_pool)][2]].ip ELSE f.ip
    IN [m EXCEPT !.objs = o1,
                 !.ip_pool = release_ip(m.ip_pool, last),
                 !.vm_pool = IF f.vm_id \in Keys(m.vm_pool)
                             THEN Del(m.vm_pool, f.vm_id) ELSE m.vm_pool]

\* the except branch: status = ERROR, release_ip, del vm_pool[vm_id]
CreateCleanup(m, f) ==
    LET o1 == IF f.ref \in DOMAIN m.objs
              THEN [m.objs EXCEPT ![f.ref].status = "error"] ELSE m.objs
    IN [m EXCEPT !.objs = o1,
                 !.ip_pool = release_ip(m.ip_pool, f.ip),
                 !.vm_pool = IF f.vm_id \in Keys(m.vm_pool)
                             THEN Del(m.vm_pool, f.vm_id) ELSE m.vm_pool]

\* create_vm from its first line to its first await.  started = FALSE: it
\* returned None; started = TRUE: it is suspended in clone_vm with frame f.
CreateBegin(m) ==
    IF Len(m.vm_pool) >= max_vms
    THEN [started |-> FALSE, m |-> m, f |-> NoFrame]
    ELSE LET vm_id == m.next_vm_id
             m1 == [m EXCEPT !.next_vm_id = vm_id + 1]
             got == get_next_ip(m1.ip_pool)
             ip == got[1]
             m2 == [m1 EXCEPT !.ip_pool = got[2]]
             ref == DynamicName(vm_id)
         IN IF ip = NoIp
            THEN [started |-> FALSE, m |-> m2, f |-> NoFrame]
            ELSE [started |-> TRUE,
                  m |-> [m2 EXCEPT
                           !.objs = [r \in DOMAIN m2.objs \cup {ref} |->
                                       IF r = ref
                                       THEN VMInfo(vm_id, ref, ip, "creating")
                                       ELSE m2.objs[r]],
                           !.vm_pool = Put(m2.vm_pool, vm_id, ref)],
                  f |-> [pc |-> "clone", vm_id |-> vm_id, ip |-> ip,
                         ref |-> ref, attempt |-> 0]]

max_attempts == vm_ready_timeout \div ReadyPollInterval

\* The three awaits of create_vm.  Each operator is the code from the answer
\* of the remote call to the next await or to the return of create_vm:
\* done = FALSE: suspended again with frame f; done = TRUE: create_vm
\* returned result (a reference to the VMInfo, or NoRef for None).
Suspended(m, f) == [done |-> FALSE, result |-> NoRef, m |-> m, f |-> f]
Failed(m, f) == [done |-> TRUE, result |-> NoRef, m |-> CreateCleanup(m, f), f |-> NoFrame]

AfterClone(m, f, success) ==
    IF ~success THEN Failed(m, f)
    ELSE IF max_attempts <= 0 THEN Failed(m, f)
    ELSE Suspended(m, [f EXCEPT !.pc = "wait", !.attempt = 0])

AfterStatus(m, f, status) ==
    IF status = "running" THEN Suspended(m, [f EXCEPT !.pc = "conn"])
    ELSE IF f.attempt + 1 >= max_attempts THEN Failed(m, f)
    ELSE Suspended(m, [f EXCEPT !.attempt = f.attempt + 1])

AfterConnection(m, f, connection_id) ==
    IF connection_id # None
    THEN [done |-> TRUE, result |-> f.ref,
          m |-> [m EXCEPT !.objs = [m.objs EXCEPT
                                      ![f.ref].guacamole_connection_id = connection_id,
                                      ![f.ref].status = "running"],
                          !.available_vms = m.available_vms \cup {f.vm_id}],
          f |-> NoFrame]
    ELSE Failed(m, f)

\* the outcomes of the await a create_vm frame is suspended in
CreateSteps(m, f) ==
    CASE f.pc = "clone" -> {AfterClone(m, f, a) : a \in CloneAnswers}
      [] f.pc = "wait" -> {AfterStatus(m, f, a) : a \in StatusAnswers}
      [] f.pc = "conn" -> {AfterConnection(m, f, a) : a \in ConnectionAnswers}
      [] OTHER -> {}

\* the model stops before create_vm has been attempted more than MaxCreates
\* times; when no remote call fails every attempt adds a record, and max_vms
\* bounds the attempts
CreateLimit == IF env = "ok" THEN max_vms ELSE MaxCreates

Bounded(m) == m.next_vm_id <= FirstVmId + CreateLimit

\* what a caller got from assign_vm_to_user: the VMInfo of vm_id, None, or
\* an exception
NoCall == [result |-> "no call yet", vm_id |-> 0]
ReturnedNone == [result |-> "None", vm_id |-> 0]
RaisedKeyError == [result |-> "KeyError", vm_id |-> 0]
ReturnedVm(vm_id) == [result |-> "VMInfo", vm_id |-> vm_id]

\* ------------------------------------------------------------------------
\* Initial state: VMPoolManager.__init__, before initialize() has run
\* ------------------------------------------------------------------------
InitMgr ==
    /\ objs = <<>>
    /\ vm_pool = <<>>
    /\ available_vms = {}
    /\ next_vm_id = FirstVmId
    /\ ip_pool = _initialize_ip_pool(config.subnet, config.base_ip, max_vms)

InitTasks ==
    /\ is_running = FALSE
    /\ init_pc = "list"
    /\ running_vms = <<>>
    /\ base_iters = 0
    /\ mon_pc = "none"
    /\ health_todo = <<>>
    /\ cvm = [p \in Tasks |-> NoFrame]
    /\ ret = [c \in Callers |-> NoCall]
    /\ stop_pc = "none"
    /\ proxmox_closed = FALSE
    /\ guac_closed = FALSE

\* sum(vm.user_count for vm in self.vm_pool.values())
RECURSIVE SumUserCounts(_, _)
SumUserCounts(m, i) ==
    IF i = 0 THEN 0
    ELSE m.objs[m.vm_pool[i][2]].user_count + SumUserCounts(m, i - 1)

\* get_pool_status: the dict it returns ('vms' holds the records)
get_pool_status(m) ==
    [total_vms |-> Len(m.vm_pool),
     available_vms |-> Cardinality(m.available_vms),
     total_users |-> SumUserCounts(m, Len(m.vm_pool)),
     vms |-> [i \in DOMAIN m.vm_pool |-> m.objs[m.vm_pool[i][2]]]]

InitDriver ==
    /\ successful_assignments = 0
    /\ failed_assignments = 0
    /\ releases = 0
    /\ pool_status = get_pool_status([objs |-> <<>>, vm_pool |-> <<>>,
                                      available_vms |-> {}])

Init == config \in Configs /\ InitMgr /\ InitTasks /\ InitDriver /\ env = "any"

\* ------------------------------------------------------------------------
\* assign_vm_to_user / release_vm_from_user
\* ------------------------------------------------------------------------
\* records the scan of assign_vm_to_user accepts
Eligible(m) ==
    {id \in m.available_vms :
        /\ m.objs[RefOf(m.vm_pool, id)].status = "running"
        /\ m.objs[RefOf(m.vm_pool, id)].user_count < users_per_vm}

UserCount(m, id) == m.objs[RefOf(m.vm_pool, id)].user_count

\* the scan keeps the first record with the lowest user_count it meets; the
\* iteration order of a Python set is not specified, so any record with the
\* lowest user_count may be the one kept
BestVms(m) ==
    {id \in Eligible(m) : \A other \in Eligible(m) : UserCount(m, id) <= UserCount(m, other)}

\* assign that takes the record out of available_vms whatever its user_count
AssignFinishAlwaysDiscard(m, ref) ==
    LET n == m.objs[ref].user_count + 1
        id == m.objs[ref].id
    IN [m EXCEPT !.objs = [m.objs EXCEPT ![ref].user_count = n],
                 !.vm_pool = Put(m.vm_pool, id, ref),
                 !.available_vms = m.available_vms \ {id}]

\* assign that takes the record out of available_vms only above capacity
AssignFinishDiscardsLate(m, ref) ==
    LET n == m.objs[ref].user_count + 1
        id == m.objs[ref].id
    IN [m EXCEPT !.objs = [m.objs EXCEPT ![ref].user_count = n],
                 !.vm_pool = Put(m.vm_pool, id, ref),
                 !.available_vms = IF n > users_per_vm
                                   THEN m.available_vms \ {id}
                                   ELSE m.available_vms]

\* lines 588-597: user_count += 1, vm_pool[id] = best_vm, discard at capacity
AssignFinish(m, ref) ==
    LET n == m.objs[ref].user_count + 1
        id == m.objs[ref].id
    IN [m EXCEPT !.objs = [m.objs EXCEPT ![ref].user_count = n],
                 !.vm_pool = Put(m.vm_pool, id, ref),
                 !.available_vms = IF n >= users_per_vm
                                   THEN m.available_vms \ {id}
                                   ELSE m.available_vms]

Returned(c, value) == ret' = [ret EXCEPT ![c] = value]

\* assign_vm_to_user from its first line to its return or to the first
\* await of the create_vm it calls
assign_vm_to_user(c) ==
    /\ cvm[c].pc = "none"
    /\ IF ~(available_vms \subseteq Keys(vm_pool))
       THEN \* self.vm_pool[vm_id] raises KeyError
            /\ Returned(c, RaisedKeyError)
            /\ UNCHANGED <<mgr_vars, cvm>>
       ELSE IF BestVms(Mgr) # {}
       THEN \E best \in BestVms(Mgr) :
               /\ SetMgr(AssignFinish(Mgr, RefOf(vm_pool, best)))
               /\ Returned(c, ReturnedVm(best))
               /\ UNCHANGED cvm
       ELSE LET r == CreateBegin(Mgr)
            IN /\ Bounded(r.m)
               /\ cvm' = [cvm EXCEPT ![c] = r.f]
               /\ SetMgr(Collect(r.m, cvm'))
               /\ IF r.started THEN UNCHANGED ret ELSE Returned(c, ReturnedNone)
    /\ UNCHANGED <<is_running, init_pc, running_vms, base_iters, mon_pc,
                   health_todo, stop_pc, proxmox_closed, guac_closed, env, config>>

\* the create_vm called by assign_vm_to_user gets the answer of a remote call
AssignCreateStep(c) ==
    /\ cvm[c].pc # "none"
    /\ \E r \in CreateSteps(Mgr, cvm[c]) :
          /\ cvm' = [cvm EXCEPT ![c] = r.f]
          /\ IF ~r.done
             THEN SetMgr(r.m) /\ UNCHANGED ret
             ELSE IF r.result = NoRef
             THEN SetMgr(Collect(r.m, cvm')) /\ Returned(c, ReturnedNone)
             ELSE /\ SetMgr(Collect(AssignFinish(r.m, r.result), cvm'))
                  /\ Returned(c, ReturnedVm(r.m.objs[r.result].id))
    /\ UNCHANGED <<is_running, init_pc, running_vms, base_iters, mon_pc,
                   health_todo, stop_pc, proxmox_closed, guac_closed, env, config>>

\* release_vm_from_user without the available_vms.add
ReleaseNeverAdds(m, vm_id) ==
    IF vm_id \in Keys(m.vm_pool)
    THEN LET ref == RefOf(m.vm_pool, vm_id)
             n == m.objs[ref].user_count
         IN IF n > 0
            THEN [m EXCEPT !.objs = [m.objs EXCEPT ![ref].user_count = n - 1]]
            ELSE m
    ELSE m

\* release_vm_from_user without the "user_count > 0" test
ReleaseUnguarded(m, vm_id) ==
    IF vm_id \in Keys(m.vm_pool)
    THEN LET ref == RefOf(m.vm_pool, vm_id)
             n == m.objs[ref].user_count
         IN [m EXCEPT !.objs = [m.objs EXCEPT ![ref].user_count = n - 1],
                      !.available_vms = IF n - 1 < users_per_vm
                                        THEN m.available_vms \cup {vm_id}
                                        ELSE m.available_vms]
    ELSE m

\* release_vm_from_user with available_vms.add outside "if user_count > 0"
ReleaseAlwaysAdds(m, vm_id) ==
    IF vm_id \in Keys(m.vm_pool)
    THEN LET ref == RefOf(m.vm_pool, vm_id)
             n == m.objs[ref].user_count
         IN IF n > 0
            THEN [m EXCEPT !.objs = [m.objs EXCEPT ![ref].user_count = n - 1],
                           !.available_vms = m.available_vms \cup {vm_id}]
            ELSE [m EXCEPT !.available_vms = m.available_vms \cup {vm_id}]
    ELSE m

\* release_vm_from_user with available_vms.add outside "if vm_id in vm_pool"
ReleaseAddsAbsent(m, vm_id) ==
    IF vm_id \in Keys(m.vm_pool)
    THEN LET ref == RefOf(m.vm_pool, vm_id)
             n == m.objs[ref].user_count
         IN IF n > 0
            THEN [m EXCEPT !.objs = [m.objs EXCEPT ![ref].user_count = n - 1],
                           !.available_vms = IF n - 1 < users_per_vm
                                             THEN m.available_vms \cup {vm_id}
                                             ELSE m.available_vms]
            ELSE m
    ELSE [m EXCEPT !.available_vms = m.available_vms \cup {vm_id}]

Release(m, vm_id) ==
    IF vm_id \in Keys(m.vm_pool)
    THEN LET ref == RefOf(m.vm_pool, vm_id)
             n == m.objs[ref].user_count
         IN IF n > 0
            THEN [m EXCEPT !.objs = [m.objs EXCEPT ![ref].user_count = n - 1],
                           !.available_vms = IF n - 1 < users_per_vm
                                             THEN m.available_vms \cup {vm_id}
                                             ELSE m.available_vms]
            ELSE m
    ELSE m

\* ids a caller may pass to release: every id the pool can hold, one id
\* that is never created, and the template
ReleaseIds == RemoteIds \cup (FirstVmId .. FirstVmId + MaxCreates)

release_vm_from_user(vm_id) ==
    /\ SetMgr(Release(Mgr, vm_id))
    /\ UNCHANGED <<task_vars, config>>

\* ------------------------------------------------------------------------
\* initialize / ensure_base_load / _register_existing_vm
\* ------------------------------------------------------------------------
\* the loop over running_vms skips the template without awaiting
SkipTemplate(vms) ==
    IF vms # <<>> /\ Head(vms) = template_vm_id THEN Tail(vms) ELSE vms

\* _register_existing_vm after the answer of get_vm_status
RegisterExisting(m, vm_id, status) ==
    IF status = "running"
    THEN LET ref == ExistingName(vm_id)
         IN [m EXCEPT
               !.objs = [r \in DOMAIN m.objs \cup {ref} |->
                           IF r = ref
                           THEN VMInfo(vm_id, ref, FallbackIp(vm_id), "running")
                           ELSE m.objs[r]],
               !.vm_pool = Put(m.vm_pool, vm_id, ref),
               !.available_vms = m.available_vms \cup {vm_id}]
    ELSE m

\* "for i in range(len(self.vm_pool), base_load)": the number of iterations
\* is fixed when the loop starts
BaseIterations(m) ==
    IF base_load > Len(m.vm_pool) THEN base_load - Len(m.vm_pool) ELSE 0

\* the create loop of ensure_base_load with n iterations left, run to its
\* next await (pc = "create") or to the end of initialize (pc = "done")
RECURSIVE BaseLoop(_, _)
BaseLoop(m, n) ==
    IF n = 0 THEN [pc |-> "done", m |-> m, f |-> NoFrame, n |-> 0]
    ELSE LET r == CreateBegin(m)
         IN IF r.started THEN [pc |-> "create", m |-> r.m, f |-> r.f, n |-> n - 1]
            ELSE BaseLoop(r.m, n - 1)

\* ensure_base_load once the loop over running_vms has rest left
AfterRegister(m, rest) ==
    IF SkipTemplate(rest) # <<>>
    THEN [pc |-> "register", m |-> m, f |-> NoFrame, n |-> 0]
    ELSE BaseLoop(m, BaseIterations(m))

\* the initialize() task moves to the position b describes; at the end of
\* initialize is_running is set and the monitoring task is created
InitGoto(b, rest) ==
    /\ Bounded(b.m)
    /\ init_pc' = b.pc
    /\ running_vms' = IF b.pc = "register" THEN SkipTemplate(rest) ELSE <<>>
    /\ base_iters' = b.n
    /\ cvm' = [cvm EXCEPT !["init"] = b.f]
    /\ SetMgr(Collect(b.m, cvm'))
    /\ is_running' = IF b.pc = "done" THEN TRUE ELSE is_running
    /\ mon_pc' = IF b.pc = "done" THEN "start" ELSE mon_pc
    /\ UNCHANGED <<health_todo, ret, stop_pc, proxmox_closed, guac_closed, env, config>>

\* list_vms answers
InitList ==
    /\ init_pc = "list"
    /\ \E running \in ListAnswers :
          InitGoto(AfterRegister(Mgr, SortedSeq(running)), SortedSeq(running))

\* get_vm_status answers inside _register_existing_vm
InitRegister ==
    /\ init_pc = "register"
    /\ \E status \in StatusAnswers :
          LET m == RegisterExisting(Mgr, Head(running_vms), status)
          IN InitGoto(AfterRegister(m, Tail(running_vms)), Tail(running_vms))

\* the create_vm called by ensure_base_load gets the answer of a remote call
InitCreateStep ==
    /\ init_pc = "create"
    /\ \E r \in CreateSteps(Mgr, cvm["init"]) :
          IF ~r.done
          THEN /\ cvm' = [cvm EXCEPT !["init"] = r.f]
               /\ SetMgr(r.m)
               /\ UNCHANGED <<is_running, init_pc, running_vms, base_iters, mon_pc,
                              health_todo, ret, stop_pc, proxmox_closed,
                              guac_closed, env, config>>
          ELSE InitGoto(BaseLoop(r.m, base_iters), <<>>)

\* ------------------------------------------------------------------------
\* _monitoring_loop / _check_vm_health / _scale_pool_based_on_load
\* ------------------------------------------------------------------------
\* _check_vm_health that leaves a VM that is not running in available_vms
HealthItemKeepsAvailable(m, item, status) ==
    LET ref == item[2]
        SetStatus(o, st) == IF ref \in DOMAIN o THEN [o EXCEPT ![ref].status = st] ELSE o
    IN IF status = "raise" THEN m
       ELSE IF status # "running"
       THEN [m EXCEPT !.objs = SetStatus(m.objs, "stopped")]
       ELSE [m EXCEPT !.objs = SetStatus(m.objs, "running")]

\* health check that deletes the record of an instance found not running
HealthItemDropsStopped(m, item, status) ==
    LET vm_id == item[1]
        ref == item[2]
        SetStatus(o, st) == IF ref \in DOMAIN o THEN [o EXCEPT ![ref].status = st] ELSE o
    IN IF status = "raise" THEN m
       ELSE IF status # "running"
       THEN [m EXCEPT !.objs = SetStatus(m.objs, "stopped"),
                      !.vm_pool = Del(m.vm_pool, vm_id),
                      !.available_vms = m.available_vms \ {vm_id}]
       ELSE [m EXCEPT !.objs = SetStatus(m.objs, "running")]

\* _check_vm_health: one item of the snapshot after get_vm_status answered;
\* vm_info is the object of the snapshot, which vm_pool may no longer hold
HealthItem(m, item, status) ==
    LET vm_id == item[1]
        ref == item[2]
        SetStatus(o, st) == IF ref \in DOMAIN o THEN [o EXCEPT ![ref].status = st] ELSE o
    IN IF status = "raise" THEN m
       ELSE IF status # "running"
       THEN [m EXCEPT !.objs = SetStatus(m.objs, "stopped"),
                      !.available_vms = m.available_vms \ {vm_id}]
       ELSE [m EXCEPT !.objs = SetStatus(m.objs, "running")]

\* scaling condition with the watermark included: "available_capacity <= 2"
LowCapacityAtTwo(m) ==
    /\ Cardinality(m.available_vms) * users_per_vm <= 2
    /\ Len(m.vm_pool) < max_vms

\* where the loop is after the two passes of a tick: in
\* asyncio.sleep(check_interval) (pc = "sleep"), or, when reading
\* config['vm']['check_interval'] raises KeyError, in the asyncio.sleep(5) of
\* the except clause (pc = "retry")
TickEnd == IF config.check_interval = Absent THEN "retry" ELSE "sleep"

\* the condition under which the scaling pass calls create_vm
LowCapacity(m) ==
    /\ Cardinality(m.available_vms) * users_per_vm < 2
    /\ Len(m.vm_pool) < max_vms

\* _scale_pool_based_on_load up to the await in create_vm (pc = "scale") or
\* to the sleep that ends the tick (pc = TickEnd)
ScalePass(m) ==
    IF LowCapacity(m)
    THEN LET r == CreateBegin(m)
         IN IF r.started THEN [pc |-> "scale", m |-> r.m, f |-> r.f]
            ELSE [pc |-> TickEnd, m |-> r.m, f |-> NoFrame]
    ELSE [pc |-> TickEnd, m |-> m, f |-> NoFrame]

MonGoto(b, todo) ==
    /\ Bounded(b.m)
    /\ mon_pc' = b.pc
    /\ health_todo' = todo
    /\ cvm' = [cvm EXCEPT !["mon"] = b.f]
    /\ SetMgr(Collect(b.m, cvm'))
    /\ UNCHANGED <<is_running, init_pc, running_vms, base_iters, ret, stop_pc,
                   proxmox_closed, guac_closed, env, config>>

\* a loop without the "except Exception" clause: the KeyError ends the task
MonTickDiesOnError ==
    /\ mon_pc \in {"start", "sleep", "retry"}
    /\ IF ~is_running \/ mon_pc = "retry"
       THEN MonGoto([pc |-> "done", m |-> Mgr, f |-> NoFrame], <<>>)
       ELSE IF enable_health_checks /\ vm_pool # <<>>
       THEN MonGoto([pc |-> "health", m |-> Mgr, f |-> NoFrame], vm_pool)
       ELSE MonGoto(ScalePass(Mgr), <<>>)

\* the loop wakes up (first run, or the sleep is over) and starts a tick
MonTick ==
    /\ mon_pc \in {"start", "sleep", "retry"}
    /\ IF ~is_running
       THEN MonGoto([pc |-> "done", m |-> Mgr, f |-> NoFrame], <<>>)
       ELSE IF enable_health_checks /\ vm_pool # <<>>
       THEN MonGoto([pc |-> "health", m |-> Mgr, f |-> NoFrame], vm_pool)
       ELSE MonGoto(ScalePass(Mgr), <<>>)

\* _check_vm_health whose try encloses the whole for loop: a raising query
\* ends the pass
MonHealthAbortsOnRaise ==
    /\ mon_pc = "health"
    /\ \E status \in StatusAnswers :
          LET m == HealthItem(Mgr, Head(health_todo), status)
          IN IF Tail(health_todo) # <<>> /\ status # "raise"
             THEN MonGoto([pc |-> "health", m |-> m, f |-> NoFrame], Tail(health_todo))
             ELSE MonGoto(ScalePass(m), <<>>)

\* get_vm_status answers inside _check_vm_health
MonHealth ==
    /\ mon_pc = "health"
    /\ \E status \in StatusAnswers :
          LET m == HealthItem(Mgr, Head(health_todo), status)
          IN IF Tail(health_todo) # <<>>
             THEN MonGoto([pc |-> "health", m |-> m, f |-> NoFrame], Tail(health_todo))
             ELSE MonGoto(ScalePass(m), <<>>)

\* the create_vm called by the scaling pass gets the answer of a remote call
MonCreateStep ==
    /\ mon_pc = "scale"
    /\ \E r \in CreateSteps(Mgr, cvm["mon"]) :
          MonGoto([pc |-> IF r.done THEN TickEnd ELSE "scale", m |-> r.m, f |-> r.f], <<>>)

\* ------------------------------------------------------------------------
\* shutdown
\* ------------------------------------------------------------------------
\* shutdown that sets is_running = False and goes on to close the clients
\* without cancelling the monitoring task
ShutdownWithoutCancel ==
    /\ stop_pc = "none"
    /\ is_running' = FALSE
    /\ stop_pc' = "close_proxmox"
    /\ UNCHANGED <<mgr_vars, mon_pc, health_todo, cvm, init_pc, running_vms,
                   base_iters, ret, proxmox_closed, guac_closed, env, config>>

\* is_running = False; cancel the monitoring task and await it.  The task
\* ends at the await it is suspended in: CancelledError is not an Exception,
\* so neither create_vm nor the loop catches it.
ShutdownCancel ==
    /\ stop_pc = "none"
    /\ is_running' = FALSE
    /\ stop_pc' = "close_proxmox"
    /\ IF monitoring_task # None /\ mon_pc # "done"
       THEN /\ mon_pc' = "cancelled"
            /\ health_todo' = <<>>
            /\ cvm' = [cvm EXCEPT !["mon"] = NoFrame]
       ELSE UNCHANGED <<mon_pc, health_todo, cvm>>
    /\ SetMgr(Collect(Mgr, cvm'))
    /\ UNCHANGED <<init_pc, running_vms, base_iters, ret, proxmox_closed,
                   guac_closed, env, config>>

ShutdownCloseProxmox ==
    /\ stop_pc = "close_proxmox"
    /\ proxmox_closed' = TRUE
    /\ stop_pc' = "close_guacamole"
    /\ UNCHANGED <<mgr_vars, is_running, init_pc, running_vms, base_iters, mon_pc,
                   health_todo, cvm, ret, guac_closed, env, config>>

ShutdownCloseGuacamole ==
    /\ stop_pc = "close_guacamole"
    /\ guac_closed' = TRUE
    /\ stop_pc' = "done"
    /\ UNCHANGED <<mgr_vars, is_running, init_pc, running_vms, base_iters, mon_pc,
                   health_todo, cvm, ret, proxmox_closed, env, config>>

\* ------------------------------------------------------------------------
\* The service under concurrent callers.  Callers call assign and release
\* until shutdown is invoked; a call in flight at that moment still runs to
\* its end.
\* ------------------------------------------------------------------------
Next ==
    \/ InitList /\ UNCHANGED driver_vars
    \/ InitRegister /\ UNCHANGED driver_vars
    \/ InitCreateStep /\ UNCHANGED driver_vars
    \/ MonTick /\ UNCHANGED driver_vars
    \/ MonHealth /\ UNCHANGED driver_vars
    \/ MonCreateStep /\ UNCHANGED driver_vars
    \/ stop_pc = "none" /\ \E c \in Callers : assign_vm_to_user(c) /\ UNCHANGED driver_vars
    \/ \E c \in Callers : AssignCreateStep(c) /\ UNCHANGED driver_vars
    \/ stop_pc = "none" /\ \E vm_id \in ReleaseIds : release_vm_from_user(vm_id) /\ UNCHANGED driver_vars
    \/ ShutdownCancel /\ UNCHANGED driver_vars
    \/ ShutdownCloseProxmox /\ UNCHANGED driver_vars
    \/ ShutdownCloseGuacamole /\ UNCHANGED driver_vars

Spec == Init /\ [][Next]_vars

\* ------------------------------------------------------------------------
\* Sequential scenarios (scenario_capacity_limits and the like): no remote
\* call fails, the hypervisor reports no VM at startup, and one driver calls
\* assign and release one after the other once ensure_base_load is over,
\* counting what it gets.
\* ------------------------------------------------------------------------
InitSeq == config \in ScenarioConfigs /\ InitMgr /\ InitTasks /\ InitDriver /\ env = "ok"

Driver == "u1"

\* the driver counts the result of an assign call when the call returns
CountAssign ==
    IF cvm'[Driver].pc # "none" THEN UNCHANGED driver_vars
    ELSE /\ successful_assignments' =
               successful_assignments + (IF ret'[Driver].result = "VMInfo" THEN 1 ELSE 0)
         /\ failed_assignments' =
               failed_assignments + (IF ret'[Driver].result = "VMInfo" THEN 0 ELSE 1)
         /\ UNCHANGED <<releases, pool_status>>

SeqAssign ==
    /\ init_pc = "done"
    /\ successful_assignments + failed_assignments < MaxCalls
    /\ assign_vm_to_user(Driver)
    /\ CountAssign

SeqAssignCreateStep == AssignCreateStep(Driver) /\ CountAssign

\* a release counts when it decremented a user_count
SeqRelease ==
    /\ init_pc = "done"
    /\ cvm[Driver].pc = "none"
    /\ releases < MaxReleases
    /\ \E vm_id \in ReleaseIds : release_vm_from_user(vm_id)
    /\ releases' = releases + (IF objs' # objs THEN 1 ELSE 0)
    /\ UNCHANGED <<successful_assignments, failed_assignments, pool_status>>

\* the driver asks for the pool status between two calls
SeqStatus ==
    /\ cvm[Driver].pc = "none"
    /\ pool_status' = get_pool_status(Mgr)
    /\ UNCHANGED <<config, mgr_vars, task_vars, successful_assignments,
                   failed_assignments, releases>>

NextSeq ==
    \/ InitList /\ UNCHANGED driver_vars
    \/ InitCreateStep /\ UNCHANGED driver_vars
    \/ SeqAssign
    \/ SeqAssignCreateStep
    \/ SeqRelease
    \/ SeqStatus

SpecSeq == InitSeq /\ [][NextSeq]_vars

\* The same driver on a service that starts with any of the VMs the
\* hypervisor may report and whose remote calls may fail
InitSeqExisting == config \in Configs /\ InitMgr /\ InitTasks /\ InitDriver /\ env = "any"

NextSeqExisting ==
    \/ InitList /\ UNCHANGED driver_vars
    \/ InitRegister /\ UNCHANGED driver_vars
    \/ InitCreateStep /\ UNCHANGED driver_vars
    \/ SeqAssign
    \/ SeqAssignCreateStep
    \/ SeqRelease
    \/ SeqStatus

SpecSeqExisting == InitSeqExisting /\ [][NextSeqExisting]_vars

TypeOK ==
    /\ \A r \in DOMAIN objs : objs[r].status \in VMStatus
    /\ next_vm_id \in FirstVmId .. FirstVmId + CreateLimit

\* ------------------------------------------------------------------------
\* Properties
\* ------------------------------------------------------------------------
\* the VMInfo stored under a key of vm_pool
Record(vm_id) == objs[RefOf(vm_pool, vm_id)]

PoolIds == Keys(vm_pool)

PoolSizeWithinMax == Len(vm_pool) <= max_vms

\* C3: every id of available_vms is the key of a record that is RUNNING and
\* below users_per_vm
AvailableOnlyEligible ==
    \A vm_id \in available_vms :
        /\ vm_id \in PoolIds
        /\ Record(vm_id).status = "running"
        /\ Record(vm_id).user_count < users_per_vm

\* C4: no two records of vm_pool hold the same ip, and no ip of a record is
\* in the free list
AddressesUniqueAndNotFree ==
    /\ \A a, b \in PoolIds : a # b => Record(a).ip # Record(b).ip
    /\ \A a \in PoolIds : ~Contains(ip_pool, Record(a).ip)

\* sum of user_count over the records of vm_pool
RECURSIVE SumUsers(_)
SumUsers(ids) ==
    IF ids = {} THEN 0
    ELSE LET id == CHOOSE x \in ids : TRUE
         IN Record(id).user_count + SumUsers(ids \ {id})

total_users == SumUsers(PoolIds)

CeilDiv(a, b) == (a + b - 1) \div b

Max(a, b) == IF a >= b THEN a ELSE b

\* the driver is between two calls and has released nothing so far
OnlyAssignsSoFar == init_pc = "done" /\ cvm[Driver].pc = "none" /\ releases = 0

MgrNext == [objs |-> objs', vm_pool |-> vm_pool', available_vms |-> available_vms',
            next_vm_id |-> next_vm_id', ip_pool |-> ip_pool']

\* C6: release of a record at user_count 0 changes nothing at all, and a
\* release that brings user_count from 1 to 0 is followed by a release that
\* changes nothing: user_count stays 0
ReleaseIdempotentAtZero ==
    [][\A vm_id \in ReleaseIds :
          (vm_id \in PoolIds /\ release_vm_from_user(vm_id)) =>
             /\ Record(vm_id).user_count = 0 => UNCHANGED vars
             /\ Record(vm_id).user_count = 1 =>
                   /\ MgrNext.objs[RefOf(vm_pool, vm_id)].user_count = 0
                   /\ Release(MgrNext, vm_id) = MgrNext]_vars

\* C6 witness: the record a caller was assigned is back at user_count 0,
\* still in the pool and stopped, so that a further release must leave it
\* out of available_vms
ReleaseIdempotentAtZeroWitness ==
    \E c \in Callers :
        /\ ret[c].result = "VMInfo"
        /\ ret[c].vm_id \in PoolIds
        /\ Record(ret[c].vm_id).user_count = 0
        /\ Record(ret[c].vm_id).status = "stopped"
        /\ ret[c].vm_id \notin available_vms
        /\ stop_pc = "none"

\* C7: release of an id that is not a key of vm_pool changes nothing
ReleaseAbsentIsNoOp ==
    [][\A vm_id \in ReleaseIds :
          (vm_id \notin PoolIds /\ release_vm_from_user(vm_id)) => UNCHANGED vars]_vars

\* C7 witness: the id create_vm used first was removed again by a failed
\* provisioning, another record holds a user, and callers may still release
ReleaseAbsentIsNoOpWitness ==
    /\ next_vm_id > FirstVmId
    /\ FirstVmId \notin PoolIds
    /\ FirstVmId \notin available_vms
    /\ \E vm_id \in PoolIds : Record(vm_id).user_count > 0
    /\ stop_pc = "none"

\* C8: an assign call ends with None or with the VMInfo of a record that is
\* in vm_pool; it never ends with an exception
AssignReturnsVmOrNone ==
    [][\A c \in Callers :
          (cvm'[c].pc = "none" /\ (ret'[c] # ret[c] \/ cvm[c].pc # "none")) =>
             \/ ret'[c].result = "None"
             \/ ret'[c].result = "VMInfo" /\ ret'[c].vm_id \in Keys(vm_pool')]_vars

\* number of times ip is in the free list
Occurrences(pool, ip) == Cardinality({i \in DOMAIN pool : pool[i] = ip})

\* C9: whenever a create_vm that reserved an address returns None, its
\* record is not in vm_pool, its id is not in available_vms and its address
\* is in ip_pool exactly once.  Stated for every answer that can make a
\* create_vm in flight fail, on the state it then returns in.
CreateFailureCleansUp ==
    \A p \in Tasks :
        cvm[p].pc # "none" =>
            \A r \in CreateSteps(Mgr, cvm[p]) :
                (r.done /\ r.result = NoRef) =>
                    /\ cvm[p].vm_id \notin Keys(r.m.vm_pool)
                    /\ cvm[p].vm_id \notin r.m.available_vms
                    /\ Occurrences(r.m.ip_pool, cvm[p].ip) = 1

\* answers of get_vm_status that are a status other than 'running'
NotRunningAnswers == StatusAnswers \ {"running", "raise"}

\* C10: when the health pass gets a status other than 'running' for a record
\* vm_pool still holds, the record becomes STOPPED, its id leaves
\* available_vms, and its user_count, every other record, vm_pool and
\* ip_pool stay as they are
HealthDemotesNotRunning ==
    (mon_pc = "health" /\ health_todo # <<>>) =>
        LET vm_id == Head(health_todo)[1]
            ref == Head(health_todo)[2]
        IN (vm_id \in PoolIds /\ RefOf(vm_pool, vm_id) = ref) =>
              \A status \in NotRunningAnswers :
                  LET m == HealthItem(Mgr, Head(health_todo), status)
                  IN /\ m.objs[ref].status = "stopped"
                     /\ vm_id \notin m.available_vms
                     /\ m.available_vms = available_vms \ {vm_id}
                     /\ m.objs[ref].user_count = objs[ref].user_count
                     /\ \A other \in DOMAIN objs \ {ref} : m.objs[other] = objs[other]
                     /\ m.vm_pool = vm_pool /\ m.ip_pool = ip_pool

\* C10 witness: the pass is about to get the status of a record that holds
\* users and is in available_vms, after an earlier pass stopped another one
HealthDemotesNotRunningWitness ==
    /\ mon_pc = "health" /\ health_todo # <<>>
    /\ Head(health_todo)[1] \in available_vms
    /\ Head(health_todo)[1] \in PoolIds
    /\ RefOf(vm_pool, Head(health_todo)[1]) = Head(health_todo)[2]
    /\ objs[Head(health_todo)[2]].user_count > 0
    /\ NotRunningAnswers # {}
    /\ \E vm_id \in PoolIds : Record(vm_id).status = "stopped" /\ Record(vm_id).user_count > 0

\* ------------------------------------------------------------------------
\* Shutdown order
\* ------------------------------------------------------------------------
\* positions at which the monitoring task is suspended in a remote call it
\* issued: a status query of the health pass, or a call of the create_vm the
\* scaling pass started
LoopInRemoteCall == mon_pc \in {"health", "scale"}

\* C11: once shutdown() has closed a client, the monitoring loop is not
\* suspended in (has not issued) a status query or a provisioning call: the
\* task was cancelled and has ended before the first close
LoopQuietAfterClose ==
    (proxmox_closed \/ guac_closed) => ~LoopInRemoteCall

\* ------------------------------------------------------------------------
\* A deployment whose template has an id create_vm can reach: ids are handed
\* out from 100 upwards, one per attempt, and the template id is any integer
\* of the configuration.  The sequential scenario is run on it.
\* ------------------------------------------------------------------------
TemplateConfigs ==
    {[Config(3, 2, 1) EXCEPT !.template_vm_id = FirstVmId + 1],
     [Config(2, 1, 2) EXCEPT !.template_vm_id = FirstVmId + 1]}

InitSeqTemplate ==
    config \in TemplateConfigs /\ InitMgr /\ InitTasks /\ InitDriver /\ env = "ok"

SpecSeqTemplate == InitSeqTemplate /\ [][NextSeq]_vars

\* C12: no record of vm_pool has the id of the template, whether it was
\* registered at startup or inserted by create_vm
TemplateNeverInPool == template_vm_id \notin PoolIds

\* ------------------------------------------------------------------------
\* ensure_base_load on an empty store
\* ------------------------------------------------------------------------
\* the free list as __init__ built it
InitialIps == _initialize_ip_pool(config.subnet, config.base_ip, max_vms)

\* initialize() has returned and the driver has called nothing yet
BaseLoadJustBuilt ==
    /\ init_pc = "done"
    /\ cvm[Driver].pc = "none"
    /\ successful_assignments = 0 /\ failed_assignments = 0 /\ releases = 0

\* C13: from an empty store, without pre-existing VMs and without failures,
\* ensure_base_load leaves exactly base_load records, each RUNNING and in
\* available_vms, the i-th holding the i-th address of the initial free list
BaseLoadBuilt ==
    BaseLoadJustBuilt =>
        /\ Len(vm_pool) = base_load
        /\ \A i \in 1 .. base_load :
              /\ objs[vm_pool[i][2]].status = "running"
              /\ vm_pool[i][1] \in available_vms
              /\ objs[vm_pool[i][2]].ip = InitialIps[i]
        /\ ip_pool = SubSeq(InitialIps, base_load + 1, Len(InitialIps))

\* C13 witness: subnet 10.0.0.0/24, base address 10.0.0.10, base_load = 1:
\* one RUNNING record with address 10.0.0.10; and a run with base_load = 2
BaseLoadBuiltWitness ==
    /\ BaseLoadJustBuilt
    /\ config.base_ip = 10
    /\ Len(vm_pool) = 1
    /\ objs[vm_pool[1][2]].ip = <<"10.0.0", 10>>
    /\ objs[vm_pool[1][2]].status = "running"

\* ------------------------------------------------------------------------
\* Address round trip
\* ------------------------------------------------------------------------
\* the free list after n calls of get_next_ip
RECURSIVE Drain(_, _)
Drain(pool, n) == IF n = 0 THEN pool ELSE Drain(get_next_ip(pool)[2], n - 1)

\* addresses a create_vm in flight has reserved: the ones release_ip is
\* called with
ReservedIps == {cvm[p].ip : p \in {q \in Tasks : cvm[q].pc # "none"}}

\* a task has just passed get_next_ip inside create_vm
Reserves(p) == cvm[p].pc = "none" /\ cvm'[p].pc = "clone"

\* C14: an address given to release_ip comes out of get_next_ip again, after
\* the addresses that were free before it; and the address a create_vm gets
\* from get_next_ip is not held by a record of vm_pool at that moment
AddressRoundTrip ==
    /\ [](\A ip \in ReservedIps :
            ~Contains(ip_pool, ip) =>
                get_next_ip(Drain(release_ip(ip_pool, ip), Len(ip_pool)))[1] = ip)
    /\ [][\A p \in Tasks :
            Reserves(p) => \A vm_id \in PoolIds : Record(vm_id).ip # cvm'[p].ip]_vars

\* ------------------------------------------------------------------------
\* Concurrent provisioning failures
\* ------------------------------------------------------------------------
\* the outcomes of the pending await of frame f in which create_vm fails
FailingSteps(m, f) == {r \in CreateSteps(m, f) : r.done /\ r.result = NoRef}

InFlight == {p \in Tasks : cvm[p].pc # "none"}

\* C15: when two create_vm calls are in flight and both fail, whichever
\* fails first, each releases the address it reserved itself: the two
\* addresses differ; after the first failure its address is in ip_pool once,
\* its record is gone, the other call's address is not in ip_pool and its
\* id is still a key of vm_pool; after the second failure both addresses are in ip_pool exactly
\* once, no record of either remains, and nothing else was added
ConcurrentFailuresReleaseOwn ==
    \A p, q \in InFlight :
        p # q =>
            /\ cvm[p].ip # cvm[q].ip
            /\ \A r \in FailingSteps(Mgr, cvm[p]) :
                  /\ Occurrences(r.m.ip_pool, cvm[p].ip) = 1
                  /\ cvm[p].vm_id \notin Keys(r.m.vm_pool)
                  /\ Occurrences(r.m.ip_pool, cvm[q].ip) = 0
                  /\ cvm[q].vm_id \in Keys(r.m.vm_pool)
                  /\ \A r2 \in FailingSteps(r.m, cvm[q]) :
                        /\ Occurrences(r2.m.ip_pool, cvm[p].ip) = 1
                        /\ Occurrences(r2.m.ip_pool, cvm[q].ip) = 1
                        /\ r2.m.ip_pool = ip_pool \o <<cvm[p].ip, cvm[q].ip>>
                        /\ cvm[p].vm_id \notin Keys(r2.m.vm_pool)
                        /\ cvm[q].vm_id \notin Keys(r2.m.vm_pool)

\* C15 witness: two create_vm calls are suspended, each at an await that can
\* fail, the one that started first being the further along
ConcurrentFailuresWitness ==
    \E p, q \in InFlight :
        /\ p # q
        /\ cvm[p].vm_id < cvm[q].vm_id
        /\ cvm[p].pc = "conn" /\ cvm[q].pc = "clone"
        /\ FailingSteps(Mgr, cvm[p]) # {}
        /\ FailingSteps(Mgr, cvm[q]) # {}

\* ------------------------------------------------------------------------
\* get_pool_status
\* ------------------------------------------------------------------------
\* the driver is between two calls, after initialize() has returned
BetweenCalls == init_pc = "done" /\ cvm[Driver].pc = "none"

\* C16: get_pool_status returns the number of records, the size of
\* available_vms and the sum of user_count, and changes no state; between
\* two calls of the driver the total_users it returns is the number of
\* successful assigns minus the number of releases that decremented a count
PoolStatusExact ==
    /\ [](BetweenCalls =>
            get_pool_status(Mgr).total_users = successful_assignments - releases)
    /\ [][pool_status' # pool_status =>
            /\ pool_status'.total_vms = Cardinality(PoolIds)
            /\ pool_status'.available_vms = Cardinality(available_vms)
            /\ pool_status'.total_users = total_users
            /\ UNCHANGED <<config, mgr_vars, task_vars>>]_vars

\* ------------------------------------------------------------------------
\* Assign / release cycles
\* ------------------------------------------------------------------------
\* C17: when an eligible RUNNING record exists, whichever record assign
\* selects, assign followed at once by release of the returned id brings the
\* record's user_count and its membership in available_vms back to what
\* they were and leaves the number of records as it was; the manager is in
\* the very state it was in before the cycle, so this holds for any number
\* of cycles
AssignReleaseRestores ==
    available_vms \subseteq PoolIds =>
        \A best \in BestVms(Mgr) :
            LET ref == RefOf(vm_pool, best)
                m1 == AssignFinish(Mgr, ref)
                m2 == Release(m1, best)
            IN /\ m1.objs[ref].user_count = objs[ref].user_count + 1
               /\ m2.objs[ref].user_count = objs[ref].user_count
               /\ (best \in m2.available_vms) = (best \in available_vms)
               /\ Len(m2.vm_pool) = Len(vm_pool)
               /\ m2 = Mgr

\* C17 witness: the record assign selects already has a user and the assign
\* fills it, so that the assign takes it out of available_vms
AssignReleaseRestoresWitness ==
    /\ available_vms \subseteq PoolIds
    /\ \E best \in BestVms(Mgr) :
          /\ UserCount(Mgr, best) > 0
          /\ UserCount(Mgr, best) = users_per_vm - 1
          /\ best \notin AssignFinish(Mgr, RefOf(vm_pool, best)).available_vms

\* ------------------------------------------------------------------------
\* Ids assigned by create_vm
\* ------------------------------------------------------------------------
\* a create_vm of task p has just inserted its record
Inserts(p) == cvm'[p].pc = "clone" /\ cvm'[p].vm_id # cvm[p].vm_id

\* C18: the id under which create_vm inserts a record is greater than every
\* id create_vm assigned before (all of them are below next_vm_id) and is
\* not the key of a record vm_pool holds at that moment, registered records
\* included: create_vm never overwrites a record
CreateIdsFresh ==
    [][\A p \in Tasks :
          Inserts(p) =>
              /\ cvm'[p].vm_id >= next_vm_id
              /\ cvm'[p].vm_id \notin PoolIds]_vars

\* ------------------------------------------------------------------------
\* Termination of the monitoring loop
\* ------------------------------------------------------------------------
\* the task exists and is suspended: not yet run, in the interval sleep, in
\* a status query of the health pass, or in a remote call of the create_vm
\* of the scaling pass
LoopPoints == {"start", "sleep", "retry", "health", "scale"}

\* the task has ended: the while condition was false, or it was cancelled
LoopEnded == {"done", "cancelled"}

\* shutdown() is invoked in this step
ShutdownInvoked == stop_pc = "none" /\ stop_pc' # "none"

\* C19: when shutdown() is invoked, the monitoring task ends at the
\* suspension point it is at, whichever it is, before shutdown goes on; and
\* the task never ends unless shutdown has been invoked
LoopEndsOnShutdownOnly ==
    /\ [][(ShutdownInvoked /\ mon_pc \in LoopPoints) => mon_pc' \in LoopEnded]_vars
    /\ [][(mon_pc \notin LoopEnded /\ mon_pc' \in LoopEnded) => stop_pc' # "none"]_vars
    /\ [](mon_pc \in LoopEnded => stop_pc # "none")

\* C19 witness: shutdown was invoked while the create_vm of the scaling pass
\* was suspended in a remote call: the task has ended and the record it was
\* creating is still in vm_pool
LoopEndsOnShutdownOnlyWitness ==
    /\ mon_pc = "cancelled"
    /\ stop_pc = "done"
    /\ \E vm_id \in PoolIds :
          /\ Record(vm_id).status = "creating"
          /\ \A p \in InFlight : cvm[p].vm_id # vm_id

\* ------------------------------------------------------------------------
\* A deployment whose base address is close to the end of the subnet, so
\* that the free list is shorter than max_vms (_initialize_ip_pool stops at
\* the last address of the network).  The sequential scenario is run on it.
\* ------------------------------------------------------------------------
ShortPoolConfigs ==
    {[Config(2, 1, 1) EXCEPT !.base_ip = 255],
     [Config(3, 2, 1) EXCEPT !.base_ip = 254]}

InitSeqShortPool ==
    config \in ShortPoolConfigs /\ InitMgr /\ InitTasks /\ InitDriver /\ env = "ok"

SpecSeqShortPool == InitSeqShortPool /\ [][NextSeq]_vars

\* the driver is between two calls and assign_vm_to_user, called now, would
\* call create_vm
AssignWouldCreate ==
    BetweenCalls /\ available_vms \subseteq PoolIds /\ BestVms(Mgr) = {}

\* C20: a create_vm that returns None because the pool is at max_vms or
\* because no address is free has issued no remote call (it is not
\* suspended in one) and has left vm_pool, available_vms, ip_pool and
\* next_vm_id as they were
CreateRefusalNoEffect ==
    AssignWouldCreate =>
        LET r == CreateBegin(Mgr)
        IN ~r.started =>
              /\ r.f = NoFrame
              /\ r.m.vm_pool = vm_pool
              /\ r.m.available_vms = available_vms
              /\ r.m.ip_pool = ip_pool
              /\ r.m.next_vm_id = next_vm_id

\* ------------------------------------------------------------------------
\* Capacity accounting under concurrent provisioning
\* ------------------------------------------------------------------------
\* how many of n create_vm calls that start one right after the other, each
\* running to its first await, are admitted (get past the max_vms test and
\* the address reservation)
RECURSIVE Admitted(_, _)
Admitted(m, n) ==
    IF n = 0 THEN 0
    ELSE LET r == CreateBegin(m)
         IN (IF r.started THEN 1 ELSE 0) + Admitted(r.m, n - 1)

\* C21: a create_vm that reaches its first await has put its record, in
\* state CREATING, into vm_pool; while a create_vm is suspended its record
\* is in vm_pool; and of ConcurrentCalls calls that start in a state with k
\* records at most max_vms - k are admitted
CreatingCountedBeforeAwait ==
    /\ \A p \in InFlight :
          /\ cvm[p].vm_id \in PoolIds
          /\ RefOf(vm_pool, cvm[p].vm_id) = cvm[p].ref
    /\ LET r == CreateBegin(Mgr)
       IN r.started =>
             /\ r.f.vm_id \in Keys(r.m.vm_pool)
             /\ RefOf(r.m.vm_pool, r.f.vm_id) = r.f.ref
             /\ r.m.objs[r.f.ref].status = "creating"
    /\ Admitted(Mgr, ConcurrentCalls) <= Max(0, max_vms - Len(vm_pool))

\* ------------------------------------------------------------------------
\* Selection in assign_vm_to_user
\* ------------------------------------------------------------------------
\* the scan of assign_vm_to_user runs without KeyError
ScanCompletes == available_vms \subseteq PoolIds

\* C22: whenever eligible records exist, every record the scan of assign can
\* select has the lowest user_count of the eligible records and, among the
\* eligible records with that user_count, the lowest id
AssignPicksLowestOfLeastLoaded ==
    ScanCompletes =>
        \A best \in BestVms(Mgr) :
            \A other \in Eligible(Mgr) :
                /\ UserCount(Mgr, best) <= UserCount(Mgr, other)
                /\ UserCount(Mgr, other) = UserCount(Mgr, best) => best <= other

\* a step in which the assign call of caller c runs from its first line to
\* its return or to the first await of the create_vm it calls
AssignActs(c) ==
    /\ cvm[c].pc = "none"
    /\ \/ ret'[c] # ret[c]
       \/ cvm'[c].pc # "none"
       \/ \E id \in PoolIds \cap PoolIds' :
             Record(id)'.user_count > Record(id).user_count

\* the assign call of caller c calls create_vm, which suspends or refuses
InvokesCreate(c) ==
    /\ cvm[c].pc = "none"
    /\ \/ cvm'[c].pc # "none"
       \/ ret'[c] = ReturnedNone /\ ret[c] # ReturnedNone

\* the assign call of caller c returns the record id found by its scan
Selects(c, id) ==
    /\ cvm[c].pc = "none" /\ cvm'[c].pc = "none"
    /\ ret'[c] = ReturnedVm(id)
    /\ id \in PoolIds'
    /\ Record(id)'.user_count = Record(id).user_count + 1

\* the create_vm called by the assign call of caller c returns
CreateEnds(c) == cvm[c].pc # "none" /\ cvm'[c].pc = "none"

UserCountsKept ==
    \A id \in PoolIds \cap PoolIds' : Record(id)'.user_count = Record(id).user_count

\* C23: an assign call calls create_vm exactly when no record of
\* available_vms is RUNNING with user_count < users_per_vm, and otherwise
\* returns one of the records that are; the record a successful assign
\* returns was RUNNING below capacity when it was taken; when create_vm
\* gives None, assign gives None and no user_count has changed
AssignCreatesIffNoneEligible ==
    [][\A c \in Callers :
          /\ AssignActs(c) =>
                /\ ScanCompletes
                /\ IF Eligible(Mgr) = {}
                   THEN InvokesCreate(c)
                   ELSE \E id \in Eligible(Mgr) : Selects(c, id)
          /\ (InvokesCreate(c) /\ cvm'[c].pc = "none") => UserCountsKept
          /\ CreateEnds(c) =>
                IF ret'[c] = ReturnedNone
                THEN UserCountsKept
                ELSE \E id \in PoolIds' :
                        /\ ret'[c] = ReturnedVm(id)
                        /\ Record(id)'.status = "running"
                        /\ Record(id)'.user_count = 1
                        /\ 0 < users_per_vm]_vars

\* a step in which the assign call of caller c returns a record
AssignSucceeds(c) ==
    /\ AssignActs(c) \/ CreateEnds(c)
    /\ cvm'[c].pc = "none"
    /\ ret'[c].result = "VMInfo"

\* C24: the step in which an assign call returns a record is the step that
\* raises that record's user_count by exactly 1 (from 0 for a record the
\* call created); the record is in vm_pool afterwards; its id is out of
\* available_vms if the new user_count equals users_per_vm and otherwise
\* available_vms is as it was (with the id of a created record added); no
\* other record's user_count changes
AssignIncrementsSelectedOnly ==
    [][\A c \in Callers : \A id \in ReleaseIds :
          (AssignSucceeds(c) /\ ret'[c].vm_id = id) =>
             LET before == IF CreateEnds(c) THEN 0 ELSE Record(id).user_count
                 offered == IF CreateEnds(c) THEN available_vms \cup {id}
                                             ELSE available_vms
             IN /\ id \in PoolIds'
                /\ Record(id)'.user_count = before + 1
                /\ available_vms' = IF Record(id)'.user_count = users_per_vm
                                    THEN offered \ {id}
                                    ELSE offered
                /\ \A other \in (PoolIds \cap PoolIds') \ {id} :
                      Record(other)'.user_count = Record(other).user_count]_vars

AssignIncrementsSelectedOnlyWitness ==
    \E c \in Callers :
        /\ ret[c].result = "VMInfo"
        /\ ret[c].vm_id \in PoolIds
        /\ Record(ret[c].vm_id).user_count = users_per_vm
        /\ ret[c].vm_id \notin available_vms
        /\ \E other \in available_vms \cap PoolIds : Record(other).user_count > 0

\* C25: release of a record with user_count > 0 lowers that user_count by
\* exactly 1 and puts the id into available_vms only if the record is
\* RUNNING and the new user_count is below users_per_vm; for a record that
\* is STOPPED, ERROR or CREATING the id is not put in
ReleaseAddsOnlyRunning ==
    \A vm_id \in PoolIds :
        Record(vm_id).user_count > 0 =>
            LET after == Release(Mgr, vm_id)
            IN /\ UserCount(after, vm_id) = Record(vm_id).user_count - 1
               /\ after.available_vms \ available_vms \subseteq {vm_id}
               /\ available_vms \subseteq after.available_vms
               /\ vm_id \in after.available_vms \ available_vms =>
                     /\ Record(vm_id).status = "running"
                     /\ UserCount(after, vm_id) < users_per_vm

\* ------------------------------------------------------------------------
\* Health pass and scaling pass
\* ------------------------------------------------------------------------
\* a step of the monitoring task inside _check_vm_health: get_vm_status has
\* answered, or raised, for the first item still to query
HealthAnswered ==
    /\ mon_pc = "health"
    /\ mon_pc' # "cancelled"
    /\ mon_pc' # mon_pc \/ health_todo' # health_todo

\* C26: a health pass takes as its items the records vm_pool holds when it
\* starts, and every answer of a status query, a failure included, moves
\* the pass on to the next item; the pass ends only with its last item
HealthPassQueriesEveryItem ==
    [][/\ (mon_pc \in {"start", "sleep", "retry"} /\ mon_pc' = "health") =>
             health_todo' = vm_pool
       /\ HealthAnswered =>
             IF Len(health_todo) > 1
             THEN mon_pc' = "health" /\ health_todo' = Tail(health_todo)
             ELSE mon_pc' \in {"scale", TickEnd} /\ health_todo' = <<>>]_vars

HealthPassQueriesEveryItemWitness ==
    /\ mon_pc = "health"
    /\ "raise" \in StatusAnswers
    /\ health_todo # <<>>
    /\ Len(health_todo) < Len(vm_pool)
    /\ \A i \in DOMAIN health_todo :
          health_todo[i] = vm_pool[i + Len(vm_pool) - Len(health_todo)]

\* answers of a status query that failed: the call raised, or the answer
\* carries no status
FailedAnswers == StatusAnswers \ {"running", "stopped"}

\* C27: when the status query of a health pass fails for an instance, the
\* pass goes on and the id of that instance is not in available_vms once
\* the answer has been handled
HealthFailureDemotes ==
    (mon_pc = "health" /\ health_todo # <<>>) =>
        \A status \in FailedAnswers :
            Head(health_todo)[1] \notin
                HealthItem(Mgr, Head(health_todo), status).available_vms

\* C28: whatever the answer of the status query, handling it leaves the
\* keys of vm_pool, the record under every key, every record's ip and
\* user_count, ip_pool and next_vm_id as they were; a record found not
\* running is still in vm_pool
HealthKeepsRecords ==
    (mon_pc = "health" /\ health_todo # <<>>) =>
        \A status \in StatusAnswers :
            LET after == HealthItem(Mgr, Head(health_todo), status)
            IN /\ after.vm_pool = vm_pool
               /\ after.ip_pool = ip_pool
               /\ after.next_vm_id = next_vm_id
               /\ DOMAIN after.objs = DOMAIN objs
               /\ \A ref \in DOMAIN objs :
                     /\ after.objs[ref].ip = objs[ref].ip
                     /\ after.objs[ref].user_count = objs[ref].user_count
                     /\ after.objs[ref].id = objs[ref].id

HealthKeepsRecordsWitness ==
    /\ mon_pc = "health"
    /\ Len(health_todo) < Len(vm_pool)
    /\ \E vm_id \in PoolIds :
          /\ \A i \in DOMAIN health_todo : health_todo[i][1] # vm_id
          /\ Record(vm_id).status = "stopped"
          /\ Record(vm_id).user_count > 0
          /\ vm_id \notin available_vms

\* C29: a scaling pass calls create_vm once (one id is taken, at most one
\* record is put into vm_pool) if len(available_vms) * users_per_vm < 2 and
\* len(vm_pool) < max_vms, and otherwise changes nothing; the monitoring
\* task starts a create_vm only on entering the scaling pass and leaves the
\* pass for the sleep that ends the tick, so a tick adds at most one record
ScalingCreatesAtMostOne ==
    /\ [](LET b == ScalePass(Mgr)
          IN IF Cardinality(available_vms) * users_per_vm < 2 /\ Len(vm_pool) < max_vms
             THEN /\ b.m.next_vm_id = next_vm_id + 1
                  /\ Len(b.m.vm_pool) <= Len(vm_pool) + 1
                  /\ b.pc = "scale" =>
                        /\ b.f.pc = "clone"
                        /\ b.f.vm_id = next_vm_id
                        /\ RefOf(b.m.vm_pool, next_vm_id) = b.f.ref
                  /\ b.pc = TickEnd => b.m.vm_pool = vm_pool
             ELSE b.pc = TickEnd /\ b.m = Mgr /\ b.f = NoFrame)
    /\ [][/\ (cvm["mon"].pc = "none" /\ cvm'["mon"].pc # "none") =>
                 /\ mon_pc \in {"start", "sleep", "retry", "health"}
                 /\ mon_pc' = "scale"
                 /\ Len(vm_pool') <= Len(vm_pool) + 1
          /\ (mon_pc = "scale" /\ cvm'["mon"] # cvm["mon"]) =>
                 /\ mon_pc' \in {"scale", TickEnd, "cancelled"}
                 /\ next_vm_id' = next_vm_id
                 /\ Len(vm_pool') <= Len(vm_pool)]_vars

ScalingCreatesAtMostOneWitness ==
    /\ mon_pc = "scale"
    /\ cvm["mon"].pc = "clone"
    /\ Len(vm_pool) >= 2
    /\ available_vms = {}

\* ------------------------------------------------------------------------
\* Progress of the monitoring loop
\* ------------------------------------------------------------------------
\* one configuration without check_interval, in which every tick ends with
\* a KeyError, and one with it
LoopConfigs == {[Config(1, 2, 0) EXCEPT !.check_interval = Absent], Config(1, 1, 1)}

InitLoop ==
    /\ config \in LoopConfigs
    /\ InitMgr /\ InitTasks /\ InitDriver
    /\ env = "any"

\* the event loop resumes the monitoring task when its sleep is over, and
\* every remote call it awaits returns or times out
LoopFairness ==
    /\ WF_vars(MonTick /\ UNCHANGED driver_vars)
    /\ WF_vars(MonHealth /\ UNCHANGED driver_vars)
    /\ WF_vars(MonCreateStep /\ UNCHANGED driver_vars)

SpecLoop == InitLoop /\ [][Next]_vars /\ LoopFairness

\* the loop is between two ticks / inside a tick
TickEnded == mon_pc \in {"sleep", "retry"}
TickRunning == mon_pc \in {"health", "scale"}

\* the next tick has nothing to do: vm_pool is empty, so the health pass
\* has no item, and the scaling pass creates nothing; such a tick reaches
\* its sleep without an await and leaves the manager as it is
QuietTick ==
    /\ TickEnded
    /\ is_running
    /\ ~(enable_health_checks /\ vm_pool # <<>>)
    /\ ScalePass(Mgr).pc = mon_pc
    /\ ScalePass(Mgr).m = Mgr

\* the bound on next_vm_id is reached: create_vm is not followed further
CapReached == next_vm_id = FirstVmId + CreateLimit

\* C30: a tick that ended with an exception leaves the loop alive: from the
\* sleep of the except clause the loop goes into the next tick, and ends
\* only if shutdown was invoked; and as long as shutdown has not been
\* invoked, the end of every tick, failed or not, is followed by another
\* tick, seen in its health pass or its scaling pass unless it has nothing
\* to do
LoopKeepsTicking ==
    /\ [][(mon_pc = "retry" /\ mon_pc' # "retry") =>
             \/ mon_pc' \in {"health", "scale"}
             \/ mon_pc' \in LoopEnded /\ stop_pc' # "none"]_vars
    /\ (TickEnded /\ stop_pc = "none") ~>
          (TickRunning \/ QuietTick \/ stop_pc # "none" \/ CapReached)

\* the monitoring task, which alone has created a record (initialize creates
\* none and no caller has called), is in the health pass of a later tick
\* after a tick that ended with the KeyError
LoopKeepsTickingWitness ==
    /\ config.check_interval = Absent
    /\ base_load = 0
    /\ ret[Driver] = NoCall
    /\ stop_pc = "none"
    /\ mon_pc = "health"
    /\ \E vm_id \in PoolIds : Record(vm_id).name = DynamicName(vm_id)

\* ------------------------------------------------------------------------
\* Lifecycle of a record under provisioning
\* ------------------------------------------------------------------------
\* C31: the status of a record that is CREATING changes only in the step in
\* which the create_vm that made it returns it, and then to RUNNING; no
\* other step, a health check included, changes it
CreatingLeftOnlyByOwnCreate ==
    [][\A ref \in DOMAIN objs :
          (/\ objs[ref].status = "creating"
           /\ ref \in DOMAIN objs'
           /\ objs'[ref].status # "creating") =>
              /\ objs'[ref].status = "running"
              /\ \E p \in Tasks : cvm[p].ref = ref /\ cvm'[p].pc = "none"]_vars

\* C32: every record of vm_pool that create_vm made and that is RUNNING
\* has a guacamole_connection_id
RunningDynamicHasConnection ==
    \A vm_id \in PoolIds :
        (Record(vm_id).name = DynamicName(vm_id) /\ Record(vm_id).status = "running") =>
            Record(vm_id).guacamole_connection_id # None

\* the record was registered at startup, or its create_vm has returned it
Provisioned(vm_id) ==
    \/ Record(vm_id).name = ExistingName(vm_id)
    \/ Record(vm_id).guacamole_connection_id # None

\* C33: every record that was registered or has completed provisioning, is
\* RUNNING and has user_count < users_per_vm is in available_vms; this
\* includes a record a health check found stopped and a later one found
\* running again
AvailableHoldsEveryEligible ==
    \A vm_id \in PoolIds :
        (/\ Provisioned(vm_id)
         /\ Record(vm_id).status = "running"
         /\ Record(vm_id).user_count < users_per_vm) => vm_id \in available_vms

\* ------------------------------------------------------------------------
\* Readiness wait of create_vm
\* ------------------------------------------------------------------------
\* configurations with a vm_ready_timeout below one poll interval and with
\* one of two poll intervals and a remainder
TimeoutConfigs ==
    {[Config(2, 2, 1) EXCEPT !.vm_ready_timeout = 3],
     [Config(2, 1, 1) EXCEPT !.vm_ready_timeout = 12]}

InitSeqTimeout ==
    /\ config \in TimeoutConfigs
    /\ InitMgr /\ InitTasks /\ InitDriver
    /\ env = "any"

SpecSeqTimeout == InitSeqTimeout /\ [][NextSeqExisting]_vars

\* the create_vm of task p has cloned and is waiting for its instance
Polling(p) == cvm[p].pc = "wait"

\* C34: a create_vm in its readiness wait has polled fewer than
\* vm_ready_timeout // 5 times; a poll that reports 'running' ends the
\* wait at once; the poll that uses up the last attempt without 'running'
\* ends create_vm with the cleanup of a clone failure (record out of
\* vm_pool, address in ip_pool); and with vm_ready_timeout > 0 a clone that
\* succeeded is followed by a first poll
ReadyWaitBounded ==
    \A p \in Tasks :
        /\ Polling(p) =>
              /\ cvm[p].attempt < vm_ready_timeout \div ReadyPollInterval
              /\ \A a \in StatusAnswers :
                    LET r == AfterStatus(Mgr, cvm[p], a)
                    IN IF a = "running"
                       THEN ~r.done /\ r.f.pc = "conn"
                       ELSE IF cvm[p].attempt + 1 < vm_ready_timeout \div ReadyPollInterval
                       THEN ~r.done /\ r.f.pc = "wait" /\ r.f.attempt = cvm[p].attempt + 1
                       ELSE /\ r.done /\ r.result = NoRef
                            /\ r.m = AfterClone(Mgr, cvm[p], FALSE).m
                            /\ cvm[p].vm_id \notin Keys(r.m.vm_pool)
                            /\ Contains(r.m.ip_pool, cvm[p].ip)
        /\ (cvm[p].pc = "clone" /\ vm_ready_timeout > 0) =>
              LET r == AfterClone(Mgr, cvm[p], TRUE)
              IN ~r.done /\ r.f.pc = "wait"

\* ------------------------------------------------------------------------
\* The address allocator on its own
\* ------------------------------------------------------------------------
\* a /24 network, a /30 network and the last /30 network of the address
\* space, and base addresses before, inside, at the end
\* of and after them
IpSubnets ==
    {<<"10.0.0", 0, 255>>, <<"10.0.0", 4, 7>>, <<"255.255.255", 252, 255>>}
IpBases == {2, 4, 6, 7, 9, 253, 255}

IpConfigs ==
    {[Config(mx, 1, 0) EXCEPT !.subnet = net, !.base_ip = b] :
        mx \in 1 .. MaxPool, net \in IpSubnets, b \in IpBases}

\* VMPoolManager(config) returned a manager: _initialize_ip_pool did not raise
Constructed == ~WalkRaises(config.subnet, config.base_ip, max_vms)

\* ip_pool of a manager whose constructor raised stands for the local list
\* "ips" at the raise; no call is made on such a manager
InitIp ==
    /\ config \in IpConfigs
    /\ InitMgr /\ InitTasks /\ InitDriver
    /\ env = "ok"

\* a call of get_next_ip
IpGet ==
    /\ Constructed
    /\ ip_pool' = get_next_ip(ip_pool)[2]
    /\ UNCHANGED <<config, objs, vm_pool, available_vms, next_vm_id, task_vars,
                   driver_vars>>

\* a call of release_ip with an address of the initial free list
IpRelease ==
    /\ Constructed
    /\ \E ip \in SeqToSet(InitialIps) : ip_pool' = release_ip(ip_pool, ip)
    /\ UNCHANGED <<config, objs, vm_pool, available_vms, next_vm_id, task_vars,
                   driver_vars>>

NextIp == IpGet \/ IpRelease

SpecIp == InitIp /\ [][NextIp]_vars

\* the addresses of a free list that no other address of it is below
LowestOf(pool) ==
    {a \in SeqToSet(pool) : \A b \in SeqToSet(pool) : a[2] <= b[2]}

\* C35: get_next_ip on an empty free list returns None and leaves it empty;
\* on any other free list it returns the lowest address of the list and
\* leaves the list without that address
GetReturnsLowest ==
    LET got == get_next_ip(ip_pool)
    IN IF ip_pool = <<>>
       THEN got[1] = NoIp /\ got[2] = <<>>
       ELSE /\ got[1] \in LowestOf(ip_pool)
            /\ SeqToSet(got[2]) = SeqToSet(ip_pool) \ {got[1]}
            /\ Len(got[2]) = Len(ip_pool) - 1

Min(a, b) == IF a <= b THEN a ELSE b

\* C36: the initial free list is base_ip, base_ip + 1, ... in increasing
\* order, as many as min(max_vms, number of addresses from base_ip to the
\* end of the subnet), all of them inside the subnet, and it is empty when
\* base_ip is outside the subnet
InitialFreeListConsecutive ==
    LET net == config.subnet
        base == config.base_ip
        n == IF InNetwork(net, base) THEN Min(max_vms, net[3] - base + 1) ELSE 0
    IN /\ Constructed
       /\ Len(InitialIps) = n
       /\ \A i \in 1 .. n :
             /\ InitialIps[i] = <<net[1], base + i - 1>>
             /\ InNetwork(net, base + i - 1)

\* C37: every id in available_vms is a key of vm_pool, so the scan of
\* assign_vm_to_user finds the record of every id it looks up and no assign
\* call ends with a KeyError
AvailableIdsAreKeys ==
    /\ \A vm_id \in available_vms : vm_id \in Keys(vm_pool)
    /\ \A c \in Callers : ret[c] # RaisedKeyError

\* the ids of the records of vm_pool that hold address ip
Holders(ip) == {vm_id \in PoolIds : Record(vm_id).ip = ip}

\* C38: each address of the initial free list is either in ip_pool exactly
\* once or held by exactly one record of vm_pool, never both and never
\* neither; ip_pool holds no address twice and is never longer than it was
\* initially
AddressConservation ==
    /\ \A ip \in SeqToSet(InitialIps) :
          \/ Occurrences(ip_pool, ip) = 1 /\ Holders(ip) = {}
          \/ Occurrences(ip_pool, ip) = 0 /\ Cardinality(Holders(ip)) = 1
    /\ \A i, j \in DOMAIN ip_pool : i # j => ip_pool[i] # ip_pool[j]
    /\ Len(ip_pool) <= Len(InitialIps)

\* C39: once shutdown() has returned, no monitoring task is running, none is
\* started afterwards and is_running is false, also when shutdown() was
\* invoked while initialize() was suspended in ensure_base_load
NoLoopAfterShutdown ==
    stop_pc = "done" =>
        /\ mon_pc \in {"none"} \cup LoopEnded
        /\ ~is_running

\* the manager states on which the scaling pass of the tick in progress
\* runs: the current one when the tick has no health pass, and the one each
\* answer to the last status query of the health pass leaves
ScalePassStates ==
    IF /\ mon_pc \in {"start", "sleep", "retry"}
       /\ is_running
       /\ ~(enable_health_checks /\ vm_pool # <<>>)
    THEN {Mgr}
    ELSE IF mon_pc = "health" /\ Len(health_todo) = 1
    THEN {HealthItem(Mgr, Head(health_todo), status) : status \in StatusAnswers}
    ELSE {}

\* no record of m is both RUNNING and below users_per_vm
NoAssignable(m) ==
    \A vm_id \in Keys(m.vm_pool) :
        LET vm == m.objs[RefOf(m.vm_pool, vm_id)]
        IN ~(vm.status = "running" /\ vm.user_count < users_per_vm)

\* C40: a scaling pass that runs while no record is both RUNNING and below
\* users_per_vm and len(vm_pool) < max_vms calls create_vm (which takes an
\* id): without assignable capacity below the pool cap the loop makes a
\* provisioning attempt
NoCapacityLeadsToCreate ==
    \A m \in ScalePassStates :
        (NoAssignable(m) /\ Len(m.vm_pool) < max_vms) =>
            ScalePass(m).m.next_vm_id = m.next_vm_id + 1

====
